---- MODULE Spec2Model ----
(***************************************************************************)
(* Model of the Loxone audio-server login exchange of PyLoxone:            *)
(*   custom_components/loxone/pyloxone_api/audioserver.py                  *)
(*     normalize_public_key, get_auth_payload, getkey,                     *)
(*     authenticate_with_audio_server                                      *)
(* and of the AudioZoneV2 entity of                                        *)
(*   custom_components/loxone/media_player.py                              *)
(*     play_state_to_media_player_state, LoxoneAudioZoneV2                 *)
(*                                                                         *)
(* A Python str is a sequence of atoms.  An atom is one character, or a    *)
(* fixed literal of the protocol that the code only ever treats as a whole *)
(* (the PEM markers, "LWSS", "Session-Token:", the path words of the       *)
(* commands).  bytes are sequences of integers 0..255.  None is the        *)
(* record NoneVal; a present string s is Str(s).                           *)
(***************************************************************************)
EXTENDS Integers, Sequences, FiniteSets, TLC

VARIABLES
  \* ---- authenticate_with_audio_server: one attempt on one connection ----
  token,          \* argument token: the credential (JWT), a string
  active_user,    \* argument active_user, a string
  session_token,  \* local session_token: NoneVal or Str(..)
  auth_result,    \* local auth_result: NoneVal or Str(..)
  message,        \* loop variable message: the message being handled
  sent,           \* what connection.send has been given, in order
  outcome,        \* "running", "true" (return True), "none" (the loop ended
                  \* and the function fell off its end), "raised"
  error,          \* the exception, once outcome = "raised"
  log,            \* history: every message received, command sent and
                  \* get_auth_payload call, in program order
  enc,            \* the get_auth_payload calls made, in order: see Call
  \* ---- normalize_public_key applied repeatedly to one key ----
  pk_in,          \* the key string given first
  pk_once,        \* the result of the first application
  pk_out,         \* the result of the latest application
  pk_runs,        \* how many times it has been applied
  \* ---- get_auth_payload called once on its own ----
  pl_in,          \* the arguments and the random bytes drawn
  pl_call,        \* the locals of the call once it has run
  \* ---- two attempts, each on its own connection ----
  att,            \* connection -> the locals and the outcome of its attempt
  inbox,          \* connection -> what the connection has delivered, in order
  \* ---- media_player.py: one LoxoneAudioZoneV2 entity ----
  zone,           \* the attributes of the entity
  updates,        \* async_schedule_update_ha_state calls made so far
  was,            \* zone and updates as they were before the latest call
  delivered,      \* the events handed to the two handlers, in order
  clock           \* what dt.utcnow() returns next

vars == <<token, active_user, session_token, auth_result, message, sent,
          outcome, error, log, enc, pk_in, pk_once, pk_out, pk_runs,
          pl_in, pl_call, att, inbox, zone, updates, was, delivered, clock>>

hsVars == <<token, active_user, session_token, auth_result, message, sent,
            outcome, error, log, enc>>

pkVars == <<pk_in, pk_once, pk_out, pk_runs>>

plVars == <<pl_in, pl_call>>

twoVars == <<att, inbox>>

zoneVars == <<zone, updates, was, delivered, clock>>

-----------------------------------------------------------------------------
(* Bounds of the model.                                                    *)

\* longest key string given to normalize_public_key on its own
MaxKeyLen == 4

\* how often normalize_public_key is applied to its own result
MaxRuns == 2

\* inbound messages one attempt may consume
MaxMsgs == 3

\* deliveries of the two connections together, when two attempts run
MaxTwoMsgs == 4

-----------------------------------------------------------------------------
(* Python values.                                                          *)

NoneVal == [none |-> TRUE, s |-> <<>>]

Str(s) == [none |-> FALSE, s |-> s]

\* Python truthiness of an optional string: None and "" are falsy
Truthy(v) == ~v.none /\ v.s # <<>>

Whitespace == {" ", "\n"}

RECURSIVE lstrip(_)
lstrip(s) ==
  IF s # <<>> /\ Head(s) \in Whitespace THEN lstrip(Tail(s)) ELSE s

RECURSIVE rstrip(_)
rstrip(s) ==
  IF s # <<>> /\ s[Len(s)] \in Whitespace
    THEN rstrip(SubSeq(s, 1, Len(s) - 1))
    ELSE s

\* str.strip()
strip(s) == rstrip(lstrip(s))

\* the concatenation of the sequences ss[1], ..., ss[Len(ss)], by halves
RECURSIVE Flatten(_)
Flatten(ss) ==
  IF ss = <<>> THEN <<>>
  ELSE IF Len(ss) = 1 THEN ss[1]
  ELSE LET h == Len(ss) \div 2
       IN  Flatten(SubSeq(ss, 1, h)) \o Flatten(SubSeq(ss, h + 1, Len(ss)))

\* str.replace(old, new) where old is a single atom and new a string
replace(s, old, new) ==
  LET One(a) == IF a = old THEN new ELSE <<a>> IN Flatten([i \in 1..Len(s) |-> One(s[i])])

\* old in s, for a single atom old
Contains(s, old) == \E i \in 1..Len(s) : s[i] = old

\* s.split(sep), for a single atom sep: the pieces between the separators
RECURSIVE split(_, _)
split(s, sep) ==
  IF ~Contains(s, sep) THEN <<s>>
  ELSE LET i == CHOOSE k \in 1..Len(s) :
                  s[k] = sep /\ \A j \in 1..(k - 1) : s[j] # sep
       IN  <<SubSeq(s, 1, i - 1)>> \o split(SubSeq(s, i + 1, Len(s)), sep)

\* t occurs in s as a contiguous run
IsSubstring(t, s) ==
  \E i \in 0..(Len(s) - Len(t)) : SubSeq(s, i + 1, i + Len(t)) = t

\* all sequences over S of length at most n
SeqsUpTo(S, n) == UNION {[1..k -> S] : k \in 0..n}

-----------------------------------------------------------------------------
(* normalize_public_key                                                    *)

header == "-----BEGIN PUBLIC KEY-----"

footer == "-----END PUBLIC KEY-----"

\* a buggy variant: no line break before the footer marker
normalize_public_key_NoFooterBreak(public_key) ==
  strip(replace(public_key, header, <<header, "\n">>))

normalize_public_key(public_key) ==
  strip(replace(replace(public_key, header, <<header, "\n">>),
                footer, <<"\n", footer>>))

\* atoms of the key strings tried: the markers, a line break, a blank and a
\* run of base64 text
KeyAtoms == {header, footer, "\n", " ", "MIIB"}

KeyStrings == SeqsUpTo(KeyAtoms, MaxKeyLen)

Count(s, a) == Cardinality({i \in 1..Len(s) : s[i] = a})

OneHeaderOneFooter(k) == Count(k, header) = 1 /\ Count(k, footer) = 1

\* The variables of each part of the model while another part is exercised.
PkIdle == pk_in = <<>> /\ pk_once = <<>> /\ pk_out = <<>> /\ pk_runs = 0

PlIdle == pl_in = <<>> /\ pl_call = <<>>

TwoIdle == att = <<>> /\ inbox = <<>>

ZoneIdle ==
  zone = <<>> /\ updates = 0 /\ was = <<>> /\ delivered = <<>> /\ clock = 0

HsIdle ==
  /\ token = <<>>
  /\ active_user = <<>>
  /\ session_token = NoneVal
  /\ auth_result = NoneVal
  /\ message = <<>>
  /\ sent = <<>>
  /\ outcome = "idle"
  /\ error = [type |-> "", text |-> <<>>]
  /\ log = <<>>
  /\ enc = <<>>

InitNorm ==
  /\ pk_in \in KeyStrings
  /\ pk_once = pk_in
  /\ pk_out = pk_in
  /\ pk_runs = 0
  /\ HsIdle
  /\ PlIdle
  /\ TwoIdle
  /\ ZoneIdle

\* one call normalize_public_key(pk_out)
Normalize ==
  /\ pk_runs < MaxRuns
  /\ pk_out' = normalize_public_key(pk_out)
  /\ pk_once' = IF pk_runs = 0 THEN normalize_public_key(pk_out) ELSE pk_once
  /\ pk_runs' = pk_runs + 1
  /\ UNCHANGED pk_in
  /\ UNCHANGED <<hsVars, plVars, twoVars, zoneVars>>

NextNorm == Normalize

SpecNorm == InitNorm /\ [][NextNorm]_vars

-----------------------------------------------------------------------------
(* Encodings used by get_auth_payload.                                     *)

HexDigits == <<"0", "1", "2", "3", "4", "5", "6", "7",
               "8", "9", "a", "b", "c", "d", "e", "f">>

UpperHexDigits == <<"0", "1", "2", "3", "4", "5", "6", "7",
                    "8", "9", "A", "B", "C", "D", "E", "F">>

\* a buggy variant: uppercase digits
hex_Upper(bytes) ==
  LET One(b) == <<UpperHexDigits[(b \div 16) + 1], UpperHexDigits[(b % 16) + 1]>>
  IN  Flatten([i \in 1..Len(bytes) |-> One(bytes[i])])

\* a buggy variant: no leading zero, one digit for a byte below 16
hex_NoLeadingZero(bytes) ==
  LET One(b) == IF b < 16 THEN <<HexDigits[b + 1]>>
                ELSE <<HexDigits[(b \div 16) + 1], HexDigits[(b % 16) + 1]>>
  IN  Flatten([i \in 1..Len(bytes) |-> One(bytes[i])])

\* bytes.hex(): two lowercase hexadecimal digits per byte
hex(bytes) ==
  LET One(b) == <<HexDigits[(b \div 16) + 1], HexDigits[(b % 16) + 1]>>
  IN  Flatten([i \in 1..Len(bytes) |-> One(bytes[i])])

B64Chars ==
  <<"A", "B", "C", "D", "E", "F", "G", "H", "I", "J", "K", "L", "M",
    "N", "O", "P", "Q", "R", "S", "T", "U", "V", "W", "X", "Y", "Z",
    "a", "b", "c", "d", "e", "f", "g", "h", "i", "j", "k", "l", "m",
    "n", "o", "p", "q", "r", "s", "t", "u", "v", "w", "x", "y", "z",
    "0", "1", "2", "3", "4", "5", "6", "7", "8", "9", "+", "/">>

\* position of x in the sequence t that holds it
IndexOf(t, x) == CHOOSE i \in 1..Len(t) : t[i] = x

\* ord(c) of an ASCII character; B64Chars is defined below in the order
\* "A".."Z", "a".."z", "0".."9", "+", "/"
Ord(c) ==
  CASE c = " " -> 32
    [] c = "%" -> 37
    [] c = "+" -> 43
    [] c = "-" -> 45
    [] c = "." -> 46
    [] c = "/" -> 47
    [] c = ":" -> 58
    [] c = "=" -> 61
    [] c = "@" -> 64
    [] c = "_" -> 95
    [] c = "~" -> 126
    [] OTHER ->
         LET i == IndexOf(B64Chars, c)
         IN  IF i <= 26 THEN 64 + i
             ELSE IF i <= 52 THEN 96 + (i - 26)
             ELSE 48 + (i - 53)

\* str.encode("utf-8") of ASCII text: one byte per character
encode_utf8(s) == [i \in 1..Len(s) |-> Ord(s[i])]

\* base64.b64encode(bytes).decode("ascii"): four characters for every
\* three bytes, "=" where the last group runs short
b64encode(bytes) ==
  LET n == Len(bytes)
      Byte(i) == IF i <= n THEN bytes[i] ELSE 0
      Group(g) == Byte(3 * g - 2) * 65536 + Byte(3 * g - 1) * 256 + Byte(3 * g)
      Sextet(g, k) ==
        CASE k = 1 -> Group(g) \div 262144
          [] k = 2 -> (Group(g) \div 4096) % 64
          [] k = 3 -> (Group(g) \div 64) % 64
          [] k = 4 -> Group(g) % 64
      Char(j) ==
        LET g == ((j - 1) \div 4) + 1
            k == ((j - 1) % 4) + 1
        IN  IF 3 * (g - 1) + k > n + 1 THEN "=" ELSE B64Chars[Sextet(g, k) + 1]
  IN  [j \in 1..(4 * ((n + 2) \div 3)) |-> Char(j)]

\* the characters urllib.parse.quote never escapes
Unreserved ==
  {B64Chars[i] : i \in 1..62} \cup {"_", ".", "-", "~"}

PercentEncoded(c) ==
  <<"%", UpperHexDigits[(Ord(c) \div 16) + 1], UpperHexDigits[(Ord(c) % 16) + 1]>>

\* a buggy variant: quote(s) with the default safe="/"
quote_SlashSafe(s) ==
  LET One(c) == IF c \in Unreserved \cup {"/"} THEN <<c>> ELSE PercentEncoded(c)
  IN  Flatten([i \in 1..Len(s) |-> One(s[i])])

\* urllib.parse.quote(s, safe=""): every character outside the unreserved
\* set becomes "%XX"
quote(s) ==
  LET One(c) == IF c \in Unreserved THEN <<c>> ELSE PercentEncoded(c)
  IN  Flatten([i \in 1..Len(s) |-> One(s[i])])

-----------------------------------------------------------------------------
(* get_auth_payload                                                        *)

\* get_random_bytes(16) for the AES key seed
KeySeedLen == 16

\* get_random_bytes(16) for the initialization vector
IvLen == 16

\* AES.block_size of Crypto.Cipher.AES
AesBlockSize == 16

\* PKCS#1 v1.5 overhead of Crypto.Cipher.PKCS1_v1_5: a plaintext longer than
\* the modulus length less 11 bytes is refused
Pkcs1Overhead == 11

\* The DER bodies the model knows: a 1024-bit and a 512-bit RSA public key.
KeyBodies == {"MIGf", "MFww"}

ModulusBytes(body) == IF body = "MIGf" THEN 128 ELSE 64

\* n bytes, the i-th derived from the drawn byte b: what a source of random
\* or ciphertext bytes hands back for the draw b
Bytes(b, n) == [i \in 1..n |-> (b + 17 * (i - 1)) % 256]

\* One draw of everything get_auth_payload does not compute itself: the two
\* get_random_bytes results and the bytes the two ciphers put out.
Draws ==
  { [key |-> 0,   iv |-> 255, rsa |-> 255, aes |-> 251],
    [key |-> 171, iv |-> 16,  rsa |-> 62,  aes |-> 0] }

\* without whitespace atoms
NoWhitespace(s) ==
  LET One(a) == IF a \in Whitespace THEN <<>> ELSE <<a>> IN Flatten([i \in 1..Len(s) |-> One(s[i])])

\* RSA.import_key(pem): the PEM decoder wants the header marker first,
\* whitespace after it, the footer marker last and one DER body between
PemBody(pem) == NoWhitespace(SubSeq(pem, 2, Len(pem) - 1))

import_key_ok(pem) ==
  /\ Len(pem) >= 4
  /\ pem[1] = header
  /\ pem[2] \in Whitespace
  /\ pem[Len(pem)] = footer
  /\ Len(PemBody(pem)) = 1
  /\ PemBody(pem)[1] \in KeyBodies

\* Padding.pad(data, block_size): PKCS#7
pad(data, block_size) ==
  LET n == block_size - (Len(data) % block_size)
  IN  data \o [i \in 1..n |-> n]

Exc(type, text) == [type |-> type, text |-> text]

NoExc == Exc("", <<>>)

\* PKCS1_v1_5 cipher.encrypt(rsa_payload) under a k-byte modulus: k bytes
\* that depend on the random padding, here on the draw
rsa_encrypt(k, rnd) == Bytes(rnd.rsa, k)

\* AES-CBC cipher.encrypt(padded): as many bytes as it is given, fixed by the
\* random key and iv, here by the draw
aes_encrypt(padded, rnd) == Bytes(rnd.aes, Len(padded))

\* the locals of a call that raised exc before computing anything further
Failed(exc, public_key, session_token_arg, pem) ==
  [ raised |-> TRUE, exc |-> exc, result |-> <<>>,
    public_key |-> public_key, session_token |-> session_token_arg,
    pem_public_key |-> pem, aes_key_bytes |-> <<>>, iv |-> <<>>,
    rsa_payload |-> <<>>, rsa_out |-> <<>>, aes_out |-> <<>>,
    rsa_encrypted |-> <<>>, ciphertext_b64 |-> <<>> ]

\* a buggy variant: quote with its default safe="/"
compose_command_SlashSafe(active_user_arg, rsa_encrypted, ciphertext_b64) ==
  <<"secure", "/", "authenticate", "/">>
  \o quote_SlashSafe(active_user_arg) \o <<"/">>
  \o quote_SlashSafe(rsa_encrypted) \o <<"/">>
  \o quote_SlashSafe(ciphertext_b64)

\* the returned f-string of get_auth_payload
compose_command(active_user_arg, rsa_encrypted, ciphertext_b64) ==
  <<"secure", "/", "authenticate", "/">>
  \o quote(active_user_arg) \o <<"/">>
  \o quote(rsa_encrypted) \o <<"/">>
  \o quote(ciphertext_b64)

\* the body of get_auth_payload up to the two ciphertexts; rnd is the draw of
\* random and ciphertext bytes of this call.  The value is the record of the
\* call's locals, result still empty.
auth_payload_locals(public_key, session_token_arg, token_arg, rnd) ==
  IF public_key.none
    THEN \* None has no replace
         Failed(Exc("AttributeError", <<>>), public_key, session_token_arg, <<>>)
  ELSE
  LET pem_public_key == normalize_public_key(public_key.s)
      aes_key_bytes  == encode_utf8(hex(Bytes(rnd.key, KeySeedLen)))
      iv             == Bytes(rnd.iv, IvLen)
      rsa_payload    == hex(aes_key_bytes) \o <<":">> \o hex(iv) \o <<":">>
                        \o session_token_arg
  IN
  IF ~import_key_ok(pem_public_key)
    THEN Failed(Exc("ValueError", <<"RSA key format is not supported">>),
                public_key, session_token_arg, pem_public_key)
  ELSE
  LET k == ModulusBytes(PemBody(pem_public_key)[1]) IN
  IF Len(rsa_payload) > k - Pkcs1Overhead
    THEN Failed(Exc("ValueError", <<"Plaintext is too long.">>),
                public_key, session_token_arg, pem_public_key)
  ELSE
  LET rsa_out == rsa_encrypt(k, rnd)
      padded  == pad(encode_utf8(token_arg), AesBlockSize)
      aes_out == aes_encrypt(padded, rnd)
  IN
  [ raised |-> FALSE, exc |-> NoExc, result |-> <<>>,
    public_key |-> public_key, session_token |-> session_token_arg,
    pem_public_key |-> pem_public_key, aes_key_bytes |-> aes_key_bytes,
    iv |-> iv, rsa_payload |-> rsa_payload,
    rsa_out |-> rsa_out, aes_out |-> aes_out,
    rsa_encrypted |-> b64encode(rsa_out),
    ciphertext_b64 |-> b64encode(aes_out) ]

\* a buggy variant: the third segment is the credential, not its ciphertext
get_auth_payload_PlainToken(public_key, session_token_arg, token_arg, active_user_arg, rnd) ==
  LET c == auth_payload_locals(public_key, session_token_arg, token_arg, rnd)
  IN  IF c.raised THEN c
      ELSE [c EXCEPT !.result =
              compose_command(active_user_arg, c.rsa_encrypted, token_arg)]

\* get_auth_payload(public_key, session_token, token, active_user): the
\* record of the call's locals, result the returned string
get_auth_payload(public_key, session_token_arg, token_arg, active_user_arg, rnd) ==
  LET c == auth_payload_locals(public_key, session_token_arg, token_arg, rnd)
  IN  IF c.raised THEN c
      ELSE [c EXCEPT !.result =
              compose_command(active_user_arg, c.rsa_encrypted, c.ciphertext_b64)]

-----------------------------------------------------------------------------
(* Inbound messages.                                                       *)

\* A message is the text the connection yields.  text holds its atoms; for a
\* text that json.loads accepts, json holds the value json.loads returns, and
\* for any other text json.type = "invalid".
\*   json.type              "dict", "list" or "invalid"
\*   json.getkey_result     what .get("getkey_result") returns:
\*        tag "absent" (None), "list" (items: the .get("pubkey") of each
\*        element) or "str" (a scalar text instead of a list)
\*   json.authenticate_result   what .get("authenticate_result") returns

GkAbsent == [tag |-> "absent", items |-> <<>>]

GkList(items) == [tag |-> "list", items |-> items]

GkStr == [tag |-> "str", items |-> <<>>]

NotJson == [type |-> "invalid", getkey_result |-> GkAbsent,
            authenticate_result |-> NoneVal]

JsonList == [type |-> "list", getkey_result |-> GkAbsent,
             authenticate_result |-> NoneVal]

JsonDict(gk, ar) == [type |-> "dict", getkey_result |-> gk,
                     authenticate_result |-> ar]

Marker == "Session-Token:"

\* what follows "LWSS" in the greeting lines tried: no marker; the marker
\* and a token, as the server writes it; the marker with only blanks after
\* it; the marker twice, with blanks and a line break around the texts
GreetingTails ==
  { <<" ", "V 16.1.11.06", " ", "|", " ", "~API:1.6~">>,
    <<" ", "V 16.1.11.06", " ", "|", " ", Marker, " ", "abc123">>,
    <<" ", Marker, " ">>,
    <<" ", Marker, " ", "abc", " ", "123", " ", Marker, " ", "xyz", "\n">> }

Greetings == { [text |-> <<"LWSS">> \o g, json |-> NotJson] : g \in GreetingTails }

\* the public keys a key-disclosure reply may carry: on one line, already on
\* three lines, too small a key, no PEM markers at all, and no pubkey field
PubKeys ==
  { Str(<<header, "MIGf", footer>>),
    Str(<<header, "\n", "MIGf", "\n", footer>>),
    Str(<<header, "MFww", footer>>),
    Str(<<"MIGf">>),
    NoneVal }

GetKeyResults ==
  {GkAbsent, GkList(<<>>), GkStr} \cup {GkList(<<k>>) : k \in PubKeys}

SuccessText == <<"authentication successful">>

AuthResults ==
  {NoneVal, Str(<<>>), Str(SuccessText), Str(<<"invalid credentials">>)}

\* the replies tried: every key disclosure without a result, every result
\* without a key disclosure, one reply that carries both, a list, and a text
\* that is no JSON
JsonMessages ==
  { [text |-> <<"{">>, json |-> JsonDict(gk, NoneVal)] : gk \in GetKeyResults }
  \cup { [text |-> <<"{">>, json |-> JsonDict(gk, ar)] :
            gk \in {GkAbsent, GkList(<<>>)}, ar \in AuthResults }
  \cup { [text |-> <<"{">>,
          json |-> JsonDict(GkList(<<Str(<<header, "MIGf", footer>>)>>),
                            Str(SuccessText))],
         [text |-> <<"[">>, json |-> JsonList],
         [text |-> <<"pong">>, json |-> NotJson] }

Messages == Greetings \cup JsonMessages

\* the loop variable before the first message
NoMessage == [text |-> <<>>, json |-> NotJson]

\* message.startswith(prefix), for a single atom prefix
startswith(text, prefix) == text # <<>> /\ text[1] = prefix

\* truthiness of json_message.get("getkey_result")
GkTruthy(gk) ==
  \/ gk.tag = "str"
  \/ gk.tag = "list" /\ gk.items # <<>>

-----------------------------------------------------------------------------
(* authenticate_with_audio_server                                          *)

\* the command getkey() sends
GetKeyCmd == <<"audio", "/", "cfg", "/", "getkey", "/", "full">>

\* the callers tried: a credential and an identity each; the identity may be
\* empty or hold a "/"
ShortToken == <<"j", "w", "t">>

LongToken ==
  <<"e", "y", "J", ".", "e", "y", "J", ".", "s", "i", "g", "n", "a", "t", "u", "r", "e">>

Callers ==
  { [token |-> ShortToken, active_user |-> <<>>],
    [token |-> ShortToken, active_user |-> <<"a", "/", "b">>],
    [token |-> LongToken,  active_user |-> <<"a", "d", "m", "i", "n">>] }

\* what the history keeps of one get_auth_payload call
Call(c) ==
  [ raised |-> c.raised, session_token |-> c.session_token,
    aes_key_bytes |-> c.aes_key_bytes, rsa_payload |-> c.rsa_payload,
    rsa_out |-> c.rsa_out, aes_out |-> c.aes_out ]

\* one entry of the history;\* st: session_token once the message is handled
Ev(ev, what, st) == [ev |-> ev, what |-> what, st |-> st]

\* how a received message reads to the protocol
Classify(m) ==
  IF startswith(m.text, "LWSS") THEN "greeting"
  ELSE IF m.json.type = "invalid" THEN "not json"
  ELSE IF m.json.type # "dict" THEN "not a map"
  ELSE IF GkTruthy(m.json.getkey_result) THEN "key"
  ELSE IF Truthy(m.json.authenticate_result) THEN "result"
  ELSE "empty map"

Received == Cardinality({i \in 1..Len(log) : log[i].ev = "recv"})

\* a buggy variant: the loop keeps consuming messages after return or raise
Awaiting_AnyOutcome == Received < MaxMsgs

\* the loop is waiting for the next message
Awaiting == outcome = "running" /\ Received < MaxMsgs

\* a buggy variant: the text after the marker is kept untrimmed
hello_session_token_NoStrip(text, current) ==
  IF Contains(text, Marker) THEN Str(split(text, Marker)[2]) ELSE current

\* session_token after a greeting line
hello_session_token(text, current) ==
  IF Contains(text, Marker) THEN Str(strip(split(text, Marker)[2])) ELSE current

\* a buggy variant: only None counts as missing
no_session_token_OnlyNone(st) == st.none

\* a buggy variant: the check of line 78 is absent
no_session_token_Never(st) == FALSE

\* not session_token
no_session_token(st) == ~Truthy(st)

\* a buggy variant: any result text counts as success
is_success_AnyText(result) == TRUE

\* auth_result == "authentication successful"
is_success(result) == result.s = SuccessText

\* f"Audio server error: {auth_result or 'unknown error'}"
error_message(result) ==
  <<"Audio server error: ">>
  \o (IF Truthy(result) THEN result.s ELSE <<"unknown error">>)

NoTokenMessage == <<"No session token captured; cannot authenticate.">>

Init ==
  /\ \E c \in Callers : token = c.token /\ active_user = c.active_user
  /\ session_token = NoneVal
  /\ auth_result = NoneVal
  /\ message = NoMessage
  /\ sent = <<>>
  /\ outcome = "running"
  /\ error = NoExc
  /\ log = <<>>
  /\ enc = <<>>
  /\ pk_in = <<>>
  /\ pk_once = <<>>
  /\ pk_out = <<>>
  /\ pk_runs = 0
  /\ PlIdle
  /\ TwoIdle
  /\ ZoneIdle

\* a buggy variant: the greeting is taken in, the key request is not sent
OnHello_NoKeyRequest ==
  /\ Awaiting
  /\ \E m \in Messages :
       /\ startswith(m.text, "LWSS")
       /\ message' = m
       /\ session_token' = hello_session_token(m.text, session_token)
       /\ log' = Append(log, Ev("recv", Classify(m), hello_session_token(m.text, session_token)))
  /\ UNCHANGED <<token, active_user, auth_result, sent, outcome, error, enc>>
  /\ UNCHANGED <<pkVars, plVars, twoVars, zoneVars>>

\* a greeting line: capture the session token, send the key request, continue
OnHello ==
  /\ Awaiting
  /\ \E m \in Messages :
       /\ startswith(m.text, "LWSS")
       /\ message' = m
       /\ session_token' = hello_session_token(m.text, session_token)
       /\ sent' = Append(sent, GetKeyCmd)
       /\ log' = log \o <<Ev("recv", Classify(m), hello_session_token(m.text, session_token)), Ev("send", "getkey", hello_session_token(m.text, session_token))>>
  /\ UNCHANGED <<token, active_user, auth_result, outcome, error, enc>>
  /\ UNCHANGED <<pkVars, plVars, twoVars, zoneVars>>

\* json.loads raises on a text that is no JSON document
OnJsonError ==
  /\ Awaiting
  /\ \E m \in Messages :
       /\ ~startswith(m.text, "LWSS")
       /\ message' = m
       /\ m.json.type = "invalid"
       /\ log' = Append(log, Ev("recv", Classify(m), session_token))
  /\ outcome' = "raised"
  /\ error' = Exc("JSONDecodeError", <<>>)
  /\ UNCHANGED <<token, active_user, session_token, auth_result, sent, enc>>
  /\ UNCHANGED <<pkVars, plVars, twoVars, zoneVars>>

\* a JSON document that is no dict: no branch is taken, the loop goes on
OnNotDict ==
  /\ Awaiting
  /\ \E m \in Messages :
       /\ ~startswith(m.text, "LWSS")
       /\ message' = m
       /\ m.json.type \notin {"invalid", "dict"}
       /\ log' = Append(log, Ev("recv", Classify(m), session_token))
  /\ UNCHANGED <<token, active_user, session_token, auth_result, sent,
                 outcome, error, enc>>
  /\ UNCHANGED <<pkVars, plVars, twoVars, zoneVars>>

\* a dict with a truthy getkey_result: without a session token raise; else
\* build the authenticate command from the first element's pubkey, send it
\* and continue
OnGetKeyResult ==
  /\ Awaiting
  /\ \E m \in Messages, rnd \in Draws :
       /\ ~startswith(m.text, "LWSS")
       /\ message' = m
       /\ m.json.type = "dict"
       /\ GkTruthy(m.json.getkey_result)
       /\ IF no_session_token(session_token)
            THEN /\ outcome' = "raised"
                 /\ error' = Exc("Exception", NoTokenMessage)
                 /\ log' = Append(log, Ev("recv", Classify(m), session_token))
                 /\ UNCHANGED <<sent, enc>>
          ELSE IF m.json.getkey_result.tag = "str"
            THEN \* "text"[0].get: a str has no get
                 /\ outcome' = "raised"
                 /\ error' = Exc("AttributeError", <<>>)
                 /\ log' = Append(log, Ev("recv", Classify(m), session_token))
                 /\ UNCHANGED <<sent, enc>>
          ELSE LET c == get_auth_payload(m.json.getkey_result.items[1],
                                         session_token.s, token, active_user, rnd)
               IN  /\ enc' = Append(enc, Call(c))
                   /\ IF c.raised
                        THEN /\ outcome' = "raised"
                             /\ error' = c.exc
                             /\ log' = log \o <<Ev("recv", Classify(m), session_token),
                                                Ev("call", "get_auth_payload", session_token)>>
                             /\ UNCHANGED sent
                        ELSE /\ sent' = Append(sent, c.result)
                             /\ log' = log \o <<Ev("recv", Classify(m), session_token),
                                                Ev("call", "get_auth_payload", session_token),
                                                Ev("send", "authenticate", session_token)>>
                             /\ UNCHANGED <<outcome, error>>
  /\ UNCHANGED <<token, active_user, session_token, auth_result>>
  /\ UNCHANGED <<pkVars, plVars, twoVars, zoneVars>>

\* a dict with a truthy authenticate_result and no truthy getkey_result:
\* return True on the success text, raise with the server's text otherwise
OnAuthenticateResult ==
  /\ Awaiting
  /\ \E m \in Messages :
       /\ ~startswith(m.text, "LWSS")
       /\ message' = m
       /\ m.json.type = "dict"
       /\ ~GkTruthy(m.json.getkey_result)
       /\ Truthy(m.json.authenticate_result)
       /\ auth_result' = m.json.authenticate_result
       /\ log' = Append(log, Ev("recv", Classify(m), session_token))
       /\ IF is_success(m.json.authenticate_result)
            THEN outcome' = "true" /\ UNCHANGED error
            ELSE /\ outcome' = "raised"
                 /\ error' = Exc("Exception", error_message(m.json.authenticate_result))
  /\ UNCHANGED <<token, active_user, session_token, sent, enc>>
  /\ UNCHANGED <<pkVars, plVars, twoVars, zoneVars>>

\* a dict with neither field truthy: raise "unknown error"
OnOtherDict ==
  /\ Awaiting
  /\ \E m \in Messages :
       /\ ~startswith(m.text, "LWSS")
       /\ message' = m
       /\ m.json.type = "dict"
       /\ ~GkTruthy(m.json.getkey_result)
       /\ ~Truthy(m.json.authenticate_result)
       /\ log' = Append(log, Ev("recv", Classify(m), session_token))
  /\ outcome' = "raised"
  /\ error' = Exc("Exception", error_message(auth_result))
  /\ UNCHANGED <<token, active_user, session_token, auth_result, sent, enc>>
  /\ UNCHANGED <<pkVars, plVars, twoVars, zoneVars>>

\* the connection closes normally: the async for ends and the function
\* returns without a return statement, that is None
OnClosedOK ==
  /\ outcome = "running"
  /\ outcome' = "none"
  /\ log' = Append(log, Ev("closed", "ok", session_token))
  /\ UNCHANGED <<token, active_user, session_token, auth_result, message,
                 sent, error, enc>>
  /\ UNCHANGED <<pkVars, plVars, twoVars, zoneVars>>

\* the connection fails: the iterator raises ConnectionClosedError
OnClosedError ==
  /\ outcome = "running"
  /\ outcome' = "raised"
  /\ error' = Exc("ConnectionClosedError", <<>>)
  /\ log' = Append(log, Ev("closed", "error", session_token))
  /\ UNCHANGED <<token, active_user, session_token, auth_result, message,
                 sent, enc>>
  /\ UNCHANGED <<pkVars, plVars, twoVars, zoneVars>>

Next ==
  \/ OnHello
  \/ OnJsonError
  \/ OnNotDict
  \/ OnGetKeyResult
  \/ OnAuthenticateResult
  \/ OnOtherDict
  \/ OnClosedOK
  \/ OnClosedError

Spec == Init /\ [][Next]_vars

-----------------------------------------------------------------------------
(* get_auth_payload called once on its own.                                *)

\* the session tokens tried: the server's, one with a blank inside, none
PayloadSessionTokens == { <<"abc123">>, <<"abc", " ", "123">>, <<>> }

\* the arguments of the call, and the draw of its random and cipher bytes
PayloadInputs ==
  { [public_key |-> k, session_token |-> st, token |-> c.token,
     active_user |-> c.active_user, rnd |-> rnd] :
      k \in PubKeys, st \in PayloadSessionTokens, c \in Callers, rnd \in Draws }

InitPayload ==
  /\ pl_in \in PayloadInputs
  /\ pl_call = <<>>
  /\ HsIdle
  /\ PkIdle
  /\ TwoIdle
  /\ ZoneIdle

\* one call get_auth_payload(public_key, session_token, token, active_user)
GetAuthPayload ==
  /\ pl_call = <<>>
  /\ pl_call' = <<get_auth_payload(pl_in.public_key, pl_in.session_token,
                                   pl_in.token, pl_in.active_user, pl_in.rnd)>>
  /\ UNCHANGED pl_in
  /\ UNCHANGED <<hsVars, pkVars, twoVars, zoneVars>>

NextPayload == GetAuthPayload

SpecPayload == InitPayload /\ [][NextPayload]_vars

-----------------------------------------------------------------------------
(* Two attempts running concurrently, each on its own connection.  The     *)
(* event loop interleaves them at every await: each step hands one message *)
(* of one connection to the attempt that iterates over that connection.    *)

\* the connections, one attempt each
Conns == {1, 2}

\* the caller of each attempt
TwoCallers ==
  [c \in Conns |->
     IF c = 1 THEN [token |-> ShortToken, active_user |-> <<>>]
     ELSE [token |-> LongToken, active_user |-> <<"a", "d", "m", "i", "n">>]]

\* the messages tried on either connection: two greetings that give
\* different session tokens, a key disclosure, and the two result replies
TwoMessages ==
  { [text |-> <<"LWSS", " ", "V 16.1.11.06", " ", "|", " ", Marker, " ", "abc123">>,
     json |-> NotJson],
    [text |-> <<"LWSS", " ", Marker, " ", "abc", " ", "123", " ", Marker, " ", "xyz", "\n">>,
     json |-> NotJson],
    [text |-> <<"{">>,
     json |-> JsonDict(GkList(<<Str(<<header, "MIGf", footer>>)>>), NoneVal)],
    [text |-> <<"{">>, json |-> JsonDict(GkAbsent, Str(SuccessText))],
    [text |-> <<"{">>, json |-> JsonDict(GkAbsent, Str(<<"invalid credentials">>))] }

\* the locals of an attempt when authenticate_with_audio_server is entered
Started(caller) ==
  [ token |-> caller.token, active_user |-> caller.active_user,
    session_token |-> NoneVal, auth_result |-> NoneVal,
    sent |-> <<>>, outcome |-> "running", error |-> NoExc ]

raise(a, exc) == [a EXCEPT !.outcome = "raised", !.error = exc]

\* one pass of the loop body over message m, on the locals a of the attempt
handle(a, m, rnd) ==
  IF startswith(m.text, "LWSS")
    THEN [a EXCEPT !.session_token = hello_session_token(m.text, a.session_token),
                   !.sent = Append(@, GetKeyCmd)]
  ELSE IF m.json.type = "invalid" THEN raise(a, Exc("JSONDecodeError", <<>>))
  ELSE IF m.json.type # "dict" THEN a
  ELSE IF GkTruthy(m.json.getkey_result)
    THEN IF no_session_token(a.session_token)
           THEN raise(a, Exc("Exception", NoTokenMessage))
         ELSE IF m.json.getkey_result.tag = "str"
           THEN raise(a, Exc("AttributeError", <<>>))
         ELSE LET c == get_auth_payload(m.json.getkey_result.items[1],
                                        a.session_token.s, a.token,
                                        a.active_user, rnd)
              IN  IF c.raised THEN raise(a, c.exc)
                  ELSE [a EXCEPT !.sent = Append(@, c.result)]
  ELSE IF Truthy(m.json.authenticate_result)
    THEN IF is_success(m.json.authenticate_result)
           THEN [a EXCEPT !.auth_result = m.json.authenticate_result,
                          !.outcome = "true"]
           ELSE raise([a EXCEPT !.auth_result = m.json.authenticate_result],
                      Exc("Exception", error_message(m.json.authenticate_result)))
  ELSE raise(a, Exc("Exception", error_message(a.auth_result)))

\* get_auth_payload runs, and draws random bytes, for message m
DrawsBytes(a, m) ==
  /\ ~startswith(m.text, "LWSS")
  /\ m.json.type = "dict"
  /\ GkTruthy(m.json.getkey_result)
  /\ ~no_session_token(a.session_token)
  /\ m.json.getkey_result.tag # "str"

\* the draw recorded for a message that draws nothing
NoDraw == [key |-> 0, iv |-> 0, rsa |-> 0, aes |-> 0]

\* what a connection delivers: a message, or its end
Delivery(kind, m, rnd) == [kind |-> kind, m |-> m, rnd |-> rnd]

\* the attempt after its connection has delivered d
step(a, d) ==
  CASE d.kind = "message" -> handle(a, d.m, d.rnd)
    [] d.kind = "closed ok" -> [a EXCEPT !.outcome = "none"]
    [] d.kind = "closed error" -> raise(a, Exc("ConnectionClosedError", <<>>))

\* a buggy variant: session_token is one module-level variable
bind_SharedToken(states, c, a) ==
  [d \in DOMAIN states |->
     IF d = c THEN a ELSE [states[d] EXCEPT !.session_token = a.session_token]]

\* the locals of all attempts once the attempt on connection c has become a:
\* session_token, auth_result and the arguments are locals of one call
bind(states, c, a) == [states EXCEPT ![c] = a]

TwoDelivered == Len(inbox[1]) + Len(inbox[2])

InitTwo ==
  /\ att = [c \in Conns |-> Started(TwoCallers[c])]
  /\ inbox = [c \in Conns |-> <<>>]
  /\ HsIdle
  /\ PkIdle
  /\ PlIdle
  /\ ZoneIdle

\* connection c yields a message to its attempt, which runs the loop body
\* up to its next await
Deliver(c) ==
  /\ att[c].outcome = "running"
  /\ TwoDelivered < MaxTwoMsgs
  /\ \E m \in TwoMessages, rnd \in Draws \cup {NoDraw} :
       /\ rnd \in (IF DrawsBytes(att[c], m) THEN Draws ELSE {NoDraw})
       /\ att' = bind(att, c, handle(att[c], m, rnd))
       /\ inbox' = [inbox EXCEPT ![c] = Append(@, Delivery("message", m, rnd))]
  /\ UNCHANGED <<hsVars, pkVars, plVars, zoneVars>>

\* connection c ends, normally or not
Close(c) ==
  /\ att[c].outcome = "running"
  /\ TwoDelivered < MaxTwoMsgs
  /\ \E kind \in {"closed ok", "closed error"} :
       /\ att' = bind(att, c, step(att[c], Delivery(kind, NoMessage, NoDraw)))
       /\ inbox' = [inbox EXCEPT ![c] = Append(@, Delivery(kind, NoMessage, NoDraw))]
  /\ UNCHANGED <<hsVars, pkVars, plVars, zoneVars>>

NextTwo == \E c \in Conns : Deliver(c) \/ Close(c)

SpecTwo == InitTwo /\ [][NextTwo]_vars

-----------------------------------------------------------------------------
(* media_player.py: LoxoneAudioZoneV2, its two event handlers.             *)
(*                                                                         *)
(* A text attribute is NoneVal or Str(..); an integer attribute is NoInt   *)
(* or SomeInt(..).  A JSON number of an event is given in tenths, so that  *)
(* int() has something to cut off.  _volume is kept in hundredths: the     *)
(* value float(x) / 100 is x hundredths.                                   *)

NoInt == [none |-> TRUE, v |-> 0]

SomeInt(n) == [none |-> FALSE, v |-> n]

\* a JSON number, in tenths; or a value int() refuses
Num(tenths) == [number |-> TRUE, tenths |-> tenths]

NotANumber == [number |-> FALSE, tenths |-> 0]

\* int(x) of a number: cut off towards zero
int(x) ==
  IF x.tenths >= 0 THEN x.tenths \div 10 ELSE 0 - ((0 - x.tenths) \div 10)

\* MediaPlayerState
IDLE == Str(<<"idle">>)

PAUSED == Str(<<"paused">>)

PLAYING == Str(<<"playing">>)

OFF == Str(<<"off">>)

\* match play_state: the default case only logs, so the function returns None
play_state_to_media_player_state(play_state) ==
  CASE play_state = 0 -> IDLE
    [] play_state = 1 -> PAUSED
    [] play_state = 2 -> PLAYING
    [] play_state = -1 -> OFF
    [] OTHER -> NoneVal

\* events the entity may handle
MaxEvents == 2

\* DEFAULT_AUDIO_ZONE_V2_PLAY_STATE is defined in const.py; the values tried
\* are the play states the match statement knows
DefaultPlayStates == {0, 1, 2, -1}

\* kwargs["details"]: absent, or a dict with a playerid
NoDetails == [present |-> FALSE, playerid |-> 0]

Details(playerid) == [present |-> TRUE, playerid |-> playerid]

ZoneDetails == {NoDetails, Details(1)}

\* "details" in kwargs and kwargs["details"] and kwargs["details"]["playerid"]:
\* False without details, and False == 0
player_id_of(details) == IF details.present THEN details.playerid ELSE 0

\* the entity after __init__
NewZone(details, default_play_state) ==
  [ artist |-> NoneVal, album |-> NoneVal, duration |-> NoInt,
    coverurl |-> NoneVal, parent_name |-> NoneVal, time |-> NoInt,
    time_updated_at |-> NoInt, title |-> NoneVal, station |-> NoneVal,
    sourceName |-> NoneVal,
    state |-> play_state_to_media_player_state(default_play_state),
    volume |-> 0, player_id |-> player_id_of(details) ]

\* event.data of a Loxone state event: it may hold the value of the volume
\* state, of the playState state, of both or of neither
StateEvent(has_volume, volume, has_playState, playState) ==
  [ has_volume |-> has_volume, volume |-> volume,
    has_playState |-> has_playState, playState |-> playState ]

StateEvents ==
  { StateEvent(FALSE, 0, FALSE, 0), StateEvent(TRUE, 50, FALSE, 0),
    StateEvent(TRUE, 30, TRUE, 2) }
  \cup { StateEvent(FALSE, 0, TRUE, ps) : ps \in {0, 1, -1, 3} }

Absent == [present |-> FALSE, s |-> <<>>]

Present(s) == [present |-> TRUE, s |-> s]

\* entries of audio event lists: a track on player 1
TrackEntry ==
  [ playerid |-> 1, artist |-> <<"Artist">>, title |-> <<"Song">>,
    album |-> <<"Album">>, duration |-> Num(2150),
    coverurl |-> <<"http://cover">>, parent |-> Present(<<"Playlist">>),
    time |-> Num(127), station |-> <<>>, sourceName |-> Present(<<"Spotify">>) ]

\* a radio station on player 1, without parent and sourceName
RadioEntry ==
  [ playerid |-> 1, artist |-> <<>>, title |-> <<"News">>,
    album |-> <<>>, duration |-> Num(0),
    coverurl |-> <<>>, parent |-> Absent,
    time |-> Num(0), station |-> <<"Radio One">>, sourceName |-> Absent ]

\* an entry of player 2, with an empty parent name and an empty sourceName
OtherEntry ==
  [ playerid |-> 2, artist |-> <<"Other">>, title |-> <<"Song">>,
    album |-> <<>>, duration |-> Num(1800),
    coverurl |-> <<>>, parent |-> Present(<<>>),
    time |-> Num(5), station |-> <<>>, sourceName |-> Present(<<>>) ]

\* an entry of player 1 whose duration is no number
BrokenEntry ==
  [ playerid |-> 1, artist |-> <<"Artist">>, title |-> <<"Broken">>,
    album |-> <<"Album">>, duration |-> NotANumber,
    coverurl |-> <<>>, parent |-> Absent,
    time |-> Num(0), station |-> <<>>, sourceName |-> Absent ]

\* an entry of player 0
ZeroEntry ==
  [ playerid |-> 0, artist |-> <<"Zero">>, title |-> <<>>,
    album |-> <<>>, duration |-> Num(10),
    coverurl |-> <<>>, parent |-> Absent,
    time |-> Num(19), station |-> <<>>, sourceName |-> Present(<<"Line in">>) ]

\* the audio event lists tried
AudioLists ==
  { <<>>, <<TrackEntry>>, <<RadioEntry>>, <<OtherEntry>>, <<BrokenEntry>>,
    <<ZeroEntry>>, <<OtherEntry, TrackEntry>>, <<TrackEntry, RadioEntry>>,
    <<OtherEntry, ZeroEntry>> }

\* ha_event.data: without the key 'audio_event', or with a list under it
HaEvents ==
  { [has_audio_event |-> FALSE, audio_event |-> <<>>] }
  \cup { [has_audio_event |-> TRUE, audio_event |-> l] : l \in AudioLists }

\* "parent" in event and event["parent"] and event["parent"]["name"] or None
parent_name_of(event) ==
  IF event.parent.present /\ event.parent.s # <<>>
    THEN Str(event.parent.s) ELSE NoneVal

\* event["station"] != "" and "Radio"
\*   or ("sourceName" in event and event["sourceName"] or None)
source_name_of(event) ==
  IF event.station # <<>> THEN Str(<<"Radio">>)
  ELSE IF event.sourceName.present /\ event.sourceName.s # <<>>
    THEN Str(event.sourceName.s) ELSE NoneVal

\* what a handler leaves: the entity, should_update, and whether it raised
Handled(z, should_update, raised) ==
  [zone |-> z, should_update |-> should_update, raised |-> raised]

\* the body of the loop of audio_event_handler for a matching entry, run on
\* the entity z at the time now
apply_audio_event(z, event, now) ==
  LET z1 == [z EXCEPT !.artist = Str(event.artist),
                      !.title = Str(event.title),
                      !.album = Str(event.album)]
      u1 == \/ Str(event.artist) # z.artist
            \/ Str(event.title) # z.title
            \/ Str(event.album) # z.album
  IN
  IF ~event.duration.number
    THEN \* int() raises ValueError
         Handled(z1, u1, TRUE)
  ELSE
  LET duration    == SomeInt(int(event.duration))
      parent_name == parent_name_of(event)
      z2 == [z1 EXCEPT !.duration = duration,
                       !.coverurl = Str(event.coverurl),
                       !.parent_name = parent_name]
      u2 == \/ u1
            \/ duration # z.duration
            \/ Str(event.coverurl) # z.coverurl
            \/ parent_name # z.parent_name
  IN
  IF ~event.time.number
    THEN Handled(z2, u2, TRUE)
  ELSE
  LET new_time    == SomeInt(int(event.time))
      source_name == source_name_of(event)
      z3 == IF new_time # z.time
              THEN [z2 EXCEPT !.time = new_time, !.time_updated_at = SomeInt(now)]
              ELSE z2
      z4 == [z3 EXCEPT !.station = Str(event.station),
                       !.sourceName = source_name]
      u4 == \/ u2
            \/ new_time # z.time
            \/ Str(event.station) # z.station
            \/ source_name # z.sourceName
  IN  Handled(z4, u4, FALSE)

\* a buggy variant: the playerid of the entry is not looked at
addressed_Any(event, z) == TRUE

\* event['playerid'] == self.player_id
addressed(event, z) == event.playerid = z.player_id

\* audio_event_handler up to its last if: the first addressed entry of the
\* list is applied, then break
audio_event_loop(z, ha_event, now) ==
  LET l == ha_event.audio_event
      hits == {i \in 1..Len(l) : addressed(l[i], z)}
  IN  IF ~ha_event.has_audio_event \/ hits = {}
        THEN Handled(z, FALSE, FALSE)
        ELSE apply_audio_event(z, l[CHOOSE i \in hits : \A j \in hits : i <= j], now)

\* event_handler up to its last if
event_loop(z, event) ==
  LET z1 == IF event.has_volume THEN [z EXCEPT !.volume = event.volume] ELSE z
      z2 == IF event.has_playState
              THEN [z1 EXCEPT !.state = play_state_to_media_player_state(event.playState)]
              ELSE z1
  IN  Handled(z2, event.has_volume \/ event.has_playState, FALSE)

\* the latest two deliveries
Latest(d) == IF delivered = <<>> THEN <<d>> ELSE <<delivered[Len(delivered)], d>>

InitZone ==
  /\ \E details \in ZoneDetails, default \in DefaultPlayStates :
       /\ zone = NewZone(details, default)
       /\ was = [zone |-> NewZone(details, default), updates |-> 0]
  /\ updates = 0
  /\ delivered = <<>>
  /\ clock = 0
  /\ HsIdle
  /\ PkIdle
  /\ PlIdle
  /\ TwoIdle

\* a handler ran and left h: an update is scheduled unless it raised first
AfterHandler(h) ==
  /\ zone' = h.zone
  /\ updates' = IF h.should_update /\ ~h.raised THEN updates + 1 ELSE updates
  /\ was' = [zone |-> zone, updates |-> updates]
  /\ clock' = clock + 1

\* LoxoneAudioZoneV2.event_handler(event)
EventHandler ==
  /\ clock < MaxEvents
  /\ \E event \in StateEvents :
       /\ AfterHandler(event_loop(zone, event))
       /\ delivered' = Latest([handler |-> "event_handler", event |-> event])
  /\ UNCHANGED <<hsVars, pkVars, plVars, twoVars>>

\* LoxoneAudioZoneV2.audio_event_handler(ha_event)
AudioEventHandler ==
  /\ clock < MaxEvents
  /\ \E ha_event \in HaEvents :
       /\ AfterHandler(audio_event_loop(zone, ha_event, clock))
       /\ delivered' = Latest([handler |-> "audio_event_handler", event |-> ha_event])
  /\ UNCHANGED <<hsVars, pkVars, plVars, twoVars>>

NextZone == EventHandler \/ AudioEventHandler

SpecZone == InitZone /\ [][NextZone]_vars

-----------------------------------------------------------------------------
(* Vocabulary of the claims.  The code keeps no state variable; the state  *)
(* of the handshake is read off what the attempt has sent so far.          *)

Is(i, ev, what) == log[i].ev = ev /\ log[i].what = what

RecvIdx == {i \in 1..Len(log) : log[i].ev = "recv"}

\* the state the handshake is in when log[i] happens: AwaitingHello until the
\* key request is sent, AwaitingKey until the authenticate command is sent,
\* AwaitingResult from then on
PhaseAt(i) ==
  IF \E j \in 1..(i - 1) : Is(j, "send", "authenticate") THEN "AwaitingResult"
  ELSE IF \E j \in 1..(i - 1) : Is(j, "send", "getkey") THEN "AwaitingKey"
  ELSE "AwaitingHello"

\* the message each state expects
Expected(phase) ==
  CASE phase = "AwaitingHello" -> "greeting"
    [] phase = "AwaitingKey" -> "key"
    [] phase = "AwaitingResult" -> "result"

LastRecv == CHOOSE i \in RecvIdx : \A j \in RecvIdx : j <= i

\* the state is the one the handling of message has just produced, and the
\* handshake was in phase when message arrived
HandledIn(phase) ==
  /\ RecvIdx # {}
  /\ \A j \in (LastRecv + 1)..Len(log) : log[j].ev \in {"call", "send"}
  /\ PhaseAt(LastRecv) = phase

\* the attempt failed on log[i] and did nothing after receiving it
AbortedAt(i) == outcome = "raised" /\ i = Len(log)

AuthPrefix == <<"secure", "/", "authenticate", "/">>

IsAuthCmd(cmd) == Len(cmd) >= 4 /\ SubSeq(cmd, 1, 4) = AuthPrefix

\* the ASCII text of bytes that are hexadecimal digits
HexText(bytes) ==
  [i \in 1..Len(bytes) |->
     IF bytes[i] >= 97 THEN HexDigits[bytes[i] - 86] ELSE HexDigits[bytes[i] - 47]]

\* the text of a greeting after its first marker, up to the next marker or
\* the end of the line, trimmed
TextAfterMarker(text) ==
  LET i    == CHOOSE k \in 1..Len(text) :
                text[k] = Marker /\ \A j \in 1..(k - 1) : text[j] # Marker
      rest == SubSeq(text, i + 1, Len(text))
      n    == IF Contains(rest, Marker)
                THEN (CHOOSE k \in 1..Len(rest) :
                        rest[k] = Marker /\ \A j \in 1..(k - 1) : rest[j] # Marker) - 1
                ELSE Len(rest)
  IN  strip(SubSeq(rest, 1, n))

-----------------------------------------------------------------------------
(* The claims.                                                             *)

\* C1: success is reported only from AwaitingResult: when the attempt returns
\* True, its history holds, in this order, a received greeting, a sent key
\* request, a received key disclosure and a sent authenticate command.
C1_SuccessOnlyAfterExchange ==
  outcome = "true" =>
    \E i, j, k, l \in 1..Len(log) :
      /\ i < j /\ j < k /\ k < l
      /\ Is(i, "recv", "greeting")
      /\ Is(j, "send", "getkey")
      /\ Is(k, "recv", "key")
      /\ Is(l, "send", "authenticate")

\* C2: a key disclosure received in AwaitingResult fails the attempt at once:
\* no second get_auth_payload call, no second authenticate command, no
\* success.
C2_LateKeyDisclosureFails ==
  \A i \in RecvIdx :
    (log[i].what = "key" /\ PhaseAt(i) = "AwaitingResult") => AbortedAt(i)

\* C3: get_auth_payload is never called and no authenticate command is ever
\* sent while session_token is None or empty; a key disclosure received then
\* fails the attempt with the "no session token" error before anything is
\* sent.
C3_NoEncryptionWithoutSessionToken ==
  /\ \A i \in 1..Len(enc) : enc[i].session_token # <<>>
  /\ \A i \in 1..Len(log) :
       (log[i].ev = "call" \/ Is(i, "send", "authenticate")) => Truthy(log[i].st)
  /\ \A i \in RecvIdx :
       (log[i].what = "key" /\ ~Truthy(log[i].st)) =>
         /\ AbortedAt(i)
         /\ error = Exc("Exception", NoTokenMessage)

\* C3 witness: after a greeting that gave no token, a key disclosure arrived
\* and the attempt failed.
C3_Witness ==
  \E i \in RecvIdx :
    /\ log[i].what = "key"
    /\ PhaseAt(i) = "AwaitingKey"
    /\ ~Truthy(log[i].st)
    /\ outcome = "raised"

\* C4: the attempt ends in success or in a raised failure, never otherwise;
\* when the connection closes while a message is awaited it ends in a
\* failure.
C4_ClosedStreamIsFailure ==
  /\ outcome \in {"running", "true", "raised"}
  /\ (log # <<>> /\ log[Len(log)].ev = "closed") => outcome = "raised"

\* C5: a message that is not the one its state expects aborts the attempt at
\* once, nothing is sent for it and none is skipped; so at most one key
\* request is sent.
C5_UnexpectedMessageAborts ==
  /\ \A i \in RecvIdx :
       log[i].what # Expected(PhaseAt(i)) => AbortedAt(i)
  /\ Cardinality({i \in 1..Len(log) : Is(i, "send", "getkey")}) <= 1

C7_GreetingSendsKeyRequest ==
  (HandledIn("AwaitingHello") /\ startswith(message.text, "LWSS")) =>
    /\ sent = <<GetKeyCmd>>
    /\ outcome = "running"
    /\ PhaseAt(Len(log) + 1) = "AwaitingKey"
    /\ session_token =
         IF Contains(message.text, Marker)
           THEN Str(TextAfterMarker(message.text))
           ELSE NoneVal

\* C7 witness: the greeting of the server was handled and gave "abc123".
C7_Witness ==
  /\ HandledIn("AwaitingHello")
  /\ startswith(message.text, "LWSS")
  /\ session_token = Str(<<"abc123">>)

\* C8: whatever is sent is the key request, or an authenticate command whose
\* second and third segments encode the two ciphertexts of one
\* get_auth_payload call; no sent text holds the credential or the AES key.
C8_OnlyCiphertextIsSent ==
  \A i \in 1..Len(sent) :
    /\ \/ sent[i] = GetKeyCmd
       \/ \E j \in 1..Len(enc) :
            /\ ~enc[j].raised
            /\ sent[i] = AuthPrefix \o quote(active_user) \o <<"/">>
                         \o quote(b64encode(enc[j].rsa_out)) \o <<"/">>
                         \o quote(b64encode(enc[j].aes_out))
    /\ ~IsSubstring(token, sent[i])
    /\ \A j \in 1..Len(enc) :
         ~enc[j].raised =>
           /\ ~IsSubstring(HexText(enc[j].aes_key_bytes), sent[i])
           /\ ~IsSubstring(hex(enc[j].aes_key_bytes), sent[i])

\* C8 witness: an authenticate command has been sent.
C8_Witness == \E i \in 1..Len(sent) : IsAuthCmd(sent[i])

\* C9: applying normalize_public_key to its own result changes nothing, for
\* a key with one header marker and one footer marker.
C9_NormalizeIdempotent ==
  (pk_runs >= 2 /\ OneHeaderOneFooter(pk_in)) => pk_out = pk_once

\* C10: after "secure/authenticate/" an authenticate command has exactly
\* three segments between "/", so none of the three holds a "/".
C10_ThreeSegments ==
  \A i \in 1..Len(sent) :
    sent[i] # GetKeyCmd =>
      /\ IsAuthCmd(sent[i])
      /\ Len(split(SubSeq(sent[i], 5, Len(sent[i])), "/")) = 3

\* C10 witness: a command was composed from an identity and a base64 text
\* that both hold a "/".
C10_Witness ==
  /\ Contains(active_user, "/")
  /\ \E i \in 1..Len(sent), j \in 1..Len(enc) :
       /\ IsAuthCmd(sent[i])
       /\ ~enc[j].raised
       /\ Contains(b64encode(enc[j].rsa_out), "/")

\* C11: once the attempt has returned True or raised, it is over: no step
\* consumes a further message, sends a further command or changes the
\* outcome.
C11_TerminalIsFinal ==
  [][(outcome \in {"true", "raised"}) => (hsVars' = hsVars)]_vars

\* C11 witness: the attempt has raised while the connection could still
\* deliver messages.
C11_Witness == outcome = "raised" /\ Received < MaxMsgs /\ sent # <<>>

\* the attempt that results from running alone over the deliveries ds
RECURSIVE Alone(_, _)
Alone(a, ds) == IF ds = <<>> THEN a ELSE Alone(step(a, Head(ds)), Tail(ds))

\* C12: two attempts on distinct connections share no mutable state: under
\* every interleaving, the session token, the commands sent and the outcome
\* of each attempt are what that attempt yields when it runs alone over the
\* messages of its own connection.
C12_AttemptsAreIndependent ==
  \A c \in Conns :
    LET alone == Alone(Started(TwoCallers[c]), inbox[c])
    IN  /\ att[c].session_token = alone.session_token
        /\ att[c].sent = alone.sent
        /\ att[c].outcome = alone.outcome
        /\ att[c].error = alone.error

\* C12 witness: both attempts have captured a session token, each a
\* different one, and both have sent their authenticate command.
C12_Witness ==
  /\ Truthy(att[1].session_token)
  /\ Truthy(att[2].session_token)
  /\ att[1].session_token # att[2].session_token
  /\ \A c \in Conns : Len(att[c].sent) = 2 /\ IsAuthCmd(att[c].sent[2])

\* the failure raised for a server rejection that carries no result text,
\* {"authenticate_result": ""}
NoTextRejection ==
  handle(Started([token |-> token, active_user |-> active_user]),
         [text |-> <<"{">>, json |-> JsonDict(GkAbsent, Str(<<>>))],
         NoDraw).error

\* C13: in AwaitingKey a keyed map with neither a key disclosure nor an
\* authentication result (no getkey_result or an empty list, and no
\* authenticate_result) fails the attempt with an error that differs from
\* the one raised for a server rejection without result text.
C13_EmptyReplyIsProtocolError ==
  ( /\ HandledIn("AwaitingKey")
    /\ message.json.type = "dict"
    /\ ~GkTruthy(message.json.getkey_result)
    /\ message.json.authenticate_result = NoneVal ) =>
      /\ outcome = "raised"
      /\ error # NoTextRejection

\* text is the lowercase hexadecimal rendering of bytes, two digits a byte
IsHexOf(text, bytes) ==
  /\ Len(text) = 2 * Len(bytes)
  /\ \A i \in 1..Len(bytes) :
       /\ text[2 * i - 1] = HexDigits[(bytes[i] \div 16) + 1]
       /\ text[2 * i] = HexDigits[(bytes[i] % 16) + 1]

\* the ASCII codes of the lowercase hexadecimal digits
HexAscii == (48..57) \cup (97..102)

\* the 16 random bytes the call drew for its key
KeySeed == Bytes(pl_in.rnd.key, KeySeedLen)

\* the ":"-separated fields of the RSA plaintext of the call
PlainFields == split(pl_call[1].rsa_payload, ":")

PayloadBuilt == pl_call # <<>> /\ ~pl_call[1].raised

\* C14 as stated: the first field of the RSA plaintext is the lowercase
\* hexadecimal rendering of the 16 random key bytes, 32 characters, the text
\* whose ASCII bytes are the AES key; the second is the hexadecimal
\* rendering of the 16 IV bytes, 32 characters.
C14_HexKeyIsSeedText ==
  PayloadBuilt =>
    /\ Len(PlainFields[1]) = 32
    /\ IsHexOf(PlainFields[1], KeySeed)
    /\ \A i \in 1..Len(pl_call[1].aes_key_bytes) :
         pl_call[1].aes_key_bytes[i] \in HexAscii
    /\ HexText(pl_call[1].aes_key_bytes) = PlainFields[1]
    /\ Len(PlainFields[2]) = 32
    /\ IsHexOf(PlainFields[2], pl_call[1].iv)

\* C14 amended: the first field of the RSA plaintext is the hexadecimal
\* rendering of the 32 AES key bytes, 64 characters; those key bytes are the
\* ASCII bytes of the lowercase hexadecimal rendering of the 16 random key
\* bytes.  The second field is the hexadecimal rendering of the 16 IV bytes,
\* 32 characters, and the third is the session token.
C14_HexKeyIsKeyBytesHex ==
  PayloadBuilt =>
    /\ Len(PlainFields) = 3
    /\ Len(PlainFields[1]) = 64
    /\ IsHexOf(PlainFields[1], pl_call[1].aes_key_bytes)
    /\ \A i \in 1..Len(pl_call[1].aes_key_bytes) :
         pl_call[1].aes_key_bytes[i] \in HexAscii
    /\ IsHexOf(HexText(pl_call[1].aes_key_bytes), KeySeed)
    /\ Len(PlainFields[2]) = 32
    /\ IsHexOf(PlainFields[2], pl_call[1].iv)
    /\ PlainFields[3] = pl_in.session_token

\* C14 witness: a call with a valid key built its RSA plaintext from a seed
\* that holds the digits a to f.
C14_Witness ==
  /\ PayloadBuilt
  /\ pl_in.rnd.key = 171
  /\ pl_in.session_token = <<"abc123">>

\* C17: whenever get_auth_payload reaches AES, the key it passes is exactly
\* 32 bytes, each the ASCII code of a lowercase hexadecimal digit, and the
\* initialization vector is exactly 16 bytes.
C17_KeyAndIvLengths ==
  PayloadBuilt =>
    /\ Len(pl_call[1].aes_key_bytes) = 32
    /\ \A i \in 1..Len(pl_call[1].aes_key_bytes) :
         pl_call[1].aes_key_bytes[i] \in HexAscii
    /\ Len(pl_call[1].iv) = 16
    /\ \A i \in 1..Len(pl_call[1].iv) : pl_call[1].iv[i] \in 0..255

\* C17 witness: a call reached AES with a key drawn from a seed whose first
\* byte is zero.
C17_Witness == PayloadBuilt /\ KeySeed[1] = 0 /\ pl_call[1].aes_out # <<>>

\* the index in the history of the n-th message received
RecvAt(n) ==
  CHOOSE i \in RecvIdx : Cardinality({j \in RecvIdx : j <= i}) = n

\* the server followed the protocol: a greeting that gave a session token,
\* then a key disclosure whose key get_auth_payload accepted, then a reply
\* with an authentication result
ProtocolFollowed ==
  /\ Received >= 3
  /\ log[RecvAt(1)].what = "greeting"
  /\ Truthy(log[RecvAt(1)].st)
  /\ log[RecvAt(2)].what = "key"
  /\ enc # <<>>
  /\ ~enc[1].raised
  /\ log[RecvAt(3)].what = "result"

\* C15: when the server follows the protocol the attempt is over after
\* exactly three messages: it has returned or raised on the third, has sent
\* exactly the key request and then one authenticate command, and has
\* called get_auth_payload exactly once.
C15_ThreeMessagesTwoCommands ==
  ProtocolFollowed =>
    /\ outcome \in {"true", "raised"}
    /\ Received = 3
    /\ RecvAt(3) = Len(log)
    /\ Len(sent) = 2
    /\ sent[1] = GetKeyCmd
    /\ IsAuthCmd(sent[2])
    /\ Len(enc) = 1

\* C15 witness: the exchange ran as the protocol says and ended in success.
C15_Witness == ProtocolFollowed /\ outcome = "true"

\* how many get_auth_payload calls the history holds up to log[i]
CallNo(i) == Cardinality({j \in 1..i : log[j].ev = "call"})

\* the session token inside the RSA plaintext of the call that built the
\* authenticate command sent at log[i]
EmbeddedToken(i) == split(enc[CallNo(i)].rsa_payload, ":")[3]

\* C16: an authenticate command is sent only after a key request has been
\* sent in the same attempt, and the RSA plaintext behind it ends with the
\* session token a greeting of this attempt has left.
C16_AuthenticateAfterKeyRequest ==
  \A i \in 1..Len(log) :
    Is(i, "send", "authenticate") =>
      /\ \E j \in 1..(i - 1) : Is(j, "send", "getkey")
      /\ \E g \in 1..(i - 1) :
           /\ Is(g, "recv", "greeting")
           /\ Truthy(log[g].st)
           /\ \A h \in (g + 1)..(i - 1) : ~Is(h, "recv", "greeting")
           /\ EmbeddedToken(i) = log[g].st.s

\* C16 witness: after two greetings an authenticate command was sent; it
\* embeds the session token of the later greeting.
C16_Witness ==
  \E g1, g2, i \in 1..Len(log) :
    /\ g1 < g2 /\ g2 < i
    /\ Is(g1, "recv", "greeting")
    /\ Is(g2, "recv", "greeting")
    /\ log[g1].st # log[g2].st
    /\ Is(i, "send", "authenticate")
    /\ EmbeddedToken(i) = log[g2].st.s

\* k is a key on one line: the header marker, an interior without markers
\* and without line breaks, the footer marker
SingleLineKey(k) ==
  /\ Len(k) >= 2
  /\ k[1] = header
  /\ k[Len(k)] = footer
  /\ OneHeaderOneFooter(k)
  /\ ~Contains(k, "\n")

Interior(k) == SubSeq(k, 2, Len(k) - 1)

\* C18: for a key on one line, normalize_public_key returns exactly three
\* lines: the header marker alone, the interior, the footer marker alone;
\* the result neither starts nor ends with whitespace.
C18_SingleLineBecomesThreeLines ==
  (pk_runs >= 1 /\ SingleLineKey(pk_in)) =>
    /\ split(pk_once, "\n") = << <<header>>, Interior(pk_in), <<footer>> >>
    /\ pk_once[1] \notin Whitespace
    /\ pk_once[Len(pk_once)] \notin Whitespace

\* C18 witness: a key on one line whose interior starts with a blank has
\* been normalized.
C18_Witness ==
  pk_runs >= 1 /\ pk_in = <<header, " ", "MIIB", footer>>

\* the latest delivery, once there is one
LastDelivery == delivered[Len(delivered)]

\* C19: after any sequence of state events the playback state of the entity
\* is one of IDLE, PAUSED, PLAYING, OFF, also after a playState outside
\* 0, 1, 2, -1.
C19_StateIsAlwaysDefined == zone.state \in {IDLE, PAUSED, PLAYING, OFF}

\* C20: an audio event list without an entry for the entity's player_id
\* changes no attribute of the entity and schedules no update; so does the
\* list that was delivered just before, delivered again.
C20_OnlyAddressedOnlyOnChange ==
  (delivered # <<>> /\ LastDelivery.handler = "audio_event_handler") =>
    LET l == LastDelivery.event.audio_event IN
    /\ (\A i \in 1..Len(l) : l[i].playerid # zone.player_id) =>
         (zone = was.zone /\ updates = was.updates)
    /\ ( /\ Len(delivered) = 2
         /\ delivered[1].handler = "audio_event_handler"
         /\ delivered[1].event = LastDelivery.event ) =>
         (zone = was.zone /\ updates = was.updates)

\* C20 witness: a list with an entry for the entity was delivered twice in a
\* row; the first delivery changed the entity and scheduled an update.
C20_Witness ==
  /\ Len(delivered) = 2
  /\ delivered[1].handler = "audio_event_handler"
  /\ delivered[2] = delivered[1]
  /\ updates = 1
  /\ zone.artist = Str(<<"Artist">>)
  /\ zone.time = SomeInt(12)

====
